---- MODULE Spec2Model ----
(***************************************************************************)
(* Session handling of the Discord chat cog                                *)
(* (chatbot/discord_bot/cogs/chat_cog/chat_cog.py, ChatCog) together with  *)
(* the assistant's conversation memory                                     *)
(* (chatbot/assistants/course_assistant.py, CourseAssistant).              *)
(*                                                                         *)
(* Every gateway event is handled by its own asyncio task.  A task runs    *)
(* without interruption from one await to the next, so each action below   *)
(* is the code between two awaits: the await resolves (or raises) and the  *)
(* handler runs on to its next await.                                      *)
(***************************************************************************)
EXTENDS Integers, Sequences, FiniteSets, TLC

\* Number of gateway events (handler tasks) in one run.
MaxTasks == 2
\* Number of bot-owned threads the platform can hold.
MaxThreads == 2
\* Longest thread history present when the bot starts.
MaxHist == 2

Tasks == 1..MaxTasks
Threads == 1..MaxThreads

(***************************************************************************)
(* Texts.  A text is a record; the reply of the model to an input names    *)
(* the input it answers.                                                   *)
(***************************************************************************)
Text(kind, of, n) == [kind |-> kind, of |-> of, n |-> n]

\* Python's None (the default of initial_text_input).
None == Text("None", "", 0)
\* The content of the n-th message accepted by on_message.
UserText(n) == Text("text", "user", n)
\* A message whose first character is "~".
TildeText == Text("tilde", "user", 0)
\* A message with empty content (e.g. an attachment only).
EmptyText == Text("empty", "user", 0)
\* The content of the message a brain reaction was put on.
ReactedText == Text("reacted", "user", 0)
\* The text given to the /chat command.
CommandText == Text("command", "user", 0)
\* The i-th message of a history that was there before the bot started.
OldText(author, i) == Text("old", author, i)

TIME_PASSED_MESSAGE == Text("time_passed", "const", 0)

\* f"A human has requested a chat!"
DefaultInitialText == Text("requested_chat", "const", 0)

\* What the model exchange returns for an input.
Response(input) == Text("response", input.kind, input.n)

\* Contents of the bot's own platform messages.
AwaitingText == Text("awaiting", "const", 0)
ReloadingText == Text("reloading", "const", 0)
PrefixText == Text("prefix", "const", 0)
PrefixReplyText == Text("prefix_reply", "const", 0)
ErrorText == Text("error", "const", 0)
EmbedText == Text("embed", "const", 0)

\* A message as the platform holds it; edits counts the edits made to it.
PlatformMessage(author, content) ==
  [author |-> author, content |-> content, edits |-> 0]

\* Message.edit(content=...) on the k-th message of thread t.
EditMessage(msgs, t, k, content) ==
  [msgs EXCEPT ![t][k].content = content, ![t][k].edits = @ + 1]

Turn(role, text) == [role |-> role, text |-> text]

\* An alternating human/bot history of length k.
OldHistory(k) ==
  [j \in 1..k |->
     IF j % 2 = 1 THEN PlatformMessage("human", OldText("human", j))
                  ELSE PlatformMessage("bot", OldText("bot", j))]

VARIABLES
  active_threads,   \* ChatCog._active_threads: thread id -> chat, 0 = no key
  chats,            \* every Chat object constructed, in order of construction
  memory,           \* every CourseAssistant constructed: its memory buffer
  messages,         \* the platform: the messages of each bot-owned thread
  tasks,            \* the handler task of each gateway event
  accepted          \* number of messages on_message has accepted so far

vars == <<active_threads, chats, memory, messages, tasks, accepted>>

NewTask ==
  [kind |-> "none", pc |-> "idle", thread |-> 0, input |-> None,
   chat |-> 0, assistant |-> 0, msg |-> 0, seq |-> 0, exc |-> "none",
   did_load |-> FALSE, loaded |-> <<>>, user |-> "", emoji |-> "",
   channel |-> ""]

\* Task i handles the i-th gateway event: it can start when the events
\* before it have arrived.
CanStart(i) ==
  /\ tasks[i].pc = "idle"
  /\ \A j \in Tasks : j < i => tasks[j].pc # "idle"

\* The bot-owned threads that exist on the platform.
ExistingThreads == 1..Len(messages)

\* datetime.now().isoformat() and uuid.uuid4() in the body of class Chat:
\* evaluated once, when the class is defined, before any event is handled.
\* Times are counted in Chat constructions, identifiers in draws of uuid4.
ClassDefinitionTime == 0
ClassDefinitionUuid == 0

\* Chat(title=..., thread=..., assistant=...): started_at and chat_id are not
\* passed and take the defaults of the class.
Chat(thread, assistant) ==
  [thread |-> thread, assistant |-> assistant,
   started_at |-> ClassDefinitionTime, chat_id |-> ClassDefinitionUuid]

\* ConversationBufferMemory(memory_key="chat_history"): an empty buffer.
ConfigureMemory == <<>>

\* A registry rebuilt around the new entry: every other entry is lost.
RegisterChat_Replacing(registry, t, c) ==
  [u \in DOMAIN registry |-> IF u = t THEN c ELSE 0]

\* self._active_threads[thread.id] = chat
RegisterChat(registry, t, c) == [registry EXCEPT ![t] = c]

\* Only the reply is saved.
SaveContext_ReplyOnly(buffer, input, output) ==
  buffer \o <<Turn("Agent", output)>>

\* LLMChain saves the exchange to memory when the model call has returned:
\* the human input, then the reply.
SaveContext(buffer, input, output) ==
  buffer \o <<Turn("Human", input), Turn("Agent", output)>>

\* An exception raised in a handler: on_raw_reaction_add catches and prints
\* it, the other handlers let it propagate out of the task.
Raise(task, where) ==
  [task EXCEPT !.pc = IF task.kind = "reaction" THEN "done" ELSE "raised",
               !.exc = where]

\* The assistants with a model exchange in flight: the tasks suspended in
\* chat.assistant.async_process_input or in _create_chat's own exchange.
Outstanding(a) ==
  {i \in Tasks : \/ /\ tasks[i].pc = "exchange"
                    /\ chats[tasks[i].chat].assistant = a
                 \/ /\ tasks[i].pc = "create_exchange"
                    /\ tasks[i].assistant = a}

\* The length budget of an assistant's memory, counted in turns: a parameter
\* of the deployment, every turn taking one unit of it.
MemoryBudget == 4

\* Truncation from the oldest end: the most recent whole turns that fit.
KeepRecent(turns, budget) ==
  IF Len(turns) <= budget
  THEN turns
  ELSE SubSeq(turns, Len(turns) - budget + 1, Len(turns))

\* Every message of a history as a turn: platform-internal messages are
\* dropped, every other message is one turn, verbatim and in platform order,
\* an Agent turn when its author is the bot identity.
TurnsOf(history, selfIdentity) ==
  LET kept == SelectSeq(history, LAMBDA m : m.author # "system")
  IN  [j \in 1..Len(kept) |->
         Turn(IF kept[j].author = selfIdentity THEN "Agent" ELSE "Human",
              kept[j].content)]

\* Memory reconstruction from a thread's history: the turns of the history,
\* truncated to the budget.
Reconstruct(history, selfIdentity) ==
  KeepRecent(TurnsOf(history, selfIdentity), MemoryBudget)

\* The handler's position once _create_chat has returned chat c.
\* on_message goes on to _async_send_message_to_bot; _spawn_thread first
\* replaces a missing initial text by the default one and sends the embed.
AfterCreate(task, c) ==
  IF task.kind = "on_message"
  THEN [task EXCEPT !.chat = c, !.pc = "send_placeholder"]
  ELSE IF task.input = None
       THEN [task EXCEPT !.chat = c, !.input = DefaultInitialText,
                         !.pc = "send_embed"]
       ELSE [task EXCEPT !.chat = c, !.pc = "send_placeholder"]

\* thread.message_count is the count the platform last told the client: at
\* least the count at start-up, at most the messages the thread has now.
MessageCounts(t) ==
  LET old == Cardinality({j \in 1..Len(messages[t]) :
                            messages[t][j].content.kind = "old"})
  IN  old..Len(messages[t])

\* _create_chat registering the Chat before the memory is reloaded.
CreateChat_RegisterEarly(i, t, task) ==
  IF active_threads[t] # 0
  THEN /\ tasks' = [tasks EXCEPT ![i] = AfterCreate(task, active_threads[t])]
       /\ UNCHANGED <<active_threads, chats, memory>>
  ELSE LET a == Len(memory) + 1
           c == Len(chats) + 1
           mine == [task EXCEPT !.assistant = a]
       IN  /\ memory' = Append(memory, ConfigureMemory)
           /\ chats' = Append(chats, Chat(t, a))
           /\ active_threads' = RegisterChat(active_threads, t, c)
           /\ \E message_count \in MessageCounts(t) :
                IF message_count > 0
                THEN tasks' = [tasks EXCEPT ![i] =
                                 [mine EXCEPT !.pc = "create_notice"]]
                ELSE tasks' = [tasks EXCEPT ![i] = AfterCreate(mine, c)]

\* _create_chat without the check for an existing entry.
CreateChat_NoExistingCheck(i, t, task) ==
  LET a == Len(memory) + 1
      c == Len(chats) + 1
      mine == [task EXCEPT !.assistant = a]
  IN  /\ memory' = Append(memory, ConfigureMemory)
      /\ \E message_count \in MessageCounts(t) :
           IF message_count > 0
           THEN /\ tasks' = [tasks EXCEPT ![i] =
                               [mine EXCEPT !.pc = "create_notice"]]
                /\ UNCHANGED <<active_threads, chats>>
           ELSE /\ chats' = Append(chats, Chat(t, a))
                /\ active_threads' = RegisterChat(active_threads, t, c)
                /\ tasks' = [tasks EXCEPT ![i] = AfterCreate(mine, c)]

\* _create_chat reloading memory whatever thread.message_count says.
CreateChat_AlwaysReload(i, t, task) ==
  IF active_threads[t] # 0
  THEN /\ tasks' = [tasks EXCEPT ![i] = AfterCreate(task, active_threads[t])]
       /\ UNCHANGED <<active_threads, chats, memory>>
  ELSE LET a == Len(memory) + 1
           mine == [task EXCEPT !.assistant = a]
       IN  /\ memory' = Append(memory, ConfigureMemory)
           /\ tasks' = [tasks EXCEPT ![i] = [mine EXCEPT !.pc = "create_notice"]]
           /\ UNCHANGED <<active_threads, chats>>

\* _create_chat reloading memory only from the second message on.
CreateChat_OffByOne(i, t, task) ==
  IF active_threads[t] # 0
  THEN /\ tasks' = [tasks EXCEPT ![i] = AfterCreate(task, active_threads[t])]
       /\ UNCHANGED <<active_threads, chats, memory>>
  ELSE LET a == Len(memory) + 1
           c == Len(chats) + 1
           mine == [task EXCEPT !.assistant = a]
       IN  /\ memory' = Append(memory, ConfigureMemory)
           /\ \E message_count \in MessageCounts(t) :
                IF message_count > 1
                THEN /\ tasks' = [tasks EXCEPT ![i] =
                                    [mine EXCEPT !.pc = "create_notice"]]
                     /\ UNCHANGED <<active_threads, chats>>
                ELSE /\ chats' = Append(chats, Chat(t, a))
                     /\ active_threads' = RegisterChat(active_threads, t, c)
                     /\ tasks' = [tasks EXCEPT ![i] = AfterCreate(mine, c)]

\* _create_chat taking one CourseAssistant, built once, for every Chat.
CreateChat_SharedAssistant(i, t, task) ==
  IF active_threads[t] # 0
  THEN /\ tasks' = [tasks EXCEPT ![i] = AfterCreate(task, active_threads[t])]
       /\ UNCHANGED <<active_threads, chats, memory>>
  ELSE LET a == 1
           c == Len(chats) + 1
           mine == [task EXCEPT !.assistant = a]
       IN  /\ memory' = IF memory = <<>> THEN <<ConfigureMemory>> ELSE memory
           /\ \E message_count \in MessageCounts(t) :
                IF message_count > 0
                THEN /\ tasks' = [tasks EXCEPT ![i] =
                                    [mine EXCEPT !.pc = "create_notice"]]
                     /\ UNCHANGED <<active_threads, chats>>
                ELSE /\ chats' = Append(chats, Chat(t, a))
                     /\ active_threads' = RegisterChat(active_threads, t, c)
                     /\ tasks' = [tasks EXCEPT ![i] = AfterCreate(mine, c)]

\* _create_chat up to its first await (or to its return when it has none).
CreateChat(i, t, task) ==
  IF active_threads[t] # 0
  THEN /\ tasks' = [tasks EXCEPT ![i] = AfterCreate(task, active_threads[t])]
       /\ UNCHANGED <<active_threads, chats, memory>>
  ELSE LET a == Len(memory) + 1
           c == Len(chats) + 1
           mine == [task EXCEPT !.assistant = a]
       IN  /\ memory' = Append(memory, ConfigureMemory)
           /\ \E message_count \in MessageCounts(t) :
                IF message_count > 0
                THEN /\ tasks' = [tasks EXCEPT ![i] =
                                    [mine EXCEPT !.pc = "create_notice"]]
                     /\ UNCHANGED <<active_threads, chats>>
                ELSE /\ chats' = Append(chats, Chat(t, a))
                     /\ active_threads' = RegisterChat(active_threads, t, c)
                     /\ tasks' = [tasks EXCEPT ![i] = AfterCreate(mine, c)]

(***************************************************************************)
(* on_message                                                              *)
(***************************************************************************)
\* A message event that one of the guards of on_message turns away.
OnMessageIgnored(i) ==
  /\ CanStart(i)
  /\ \E author \in {"bot", "human"},
        channel \in {"text", "foreign_thread", "own_thread"} :
       /\ author = "bot" \/ channel # "own_thread"
       /\ tasks' = [tasks EXCEPT ![i] =
                      [NewTask EXCEPT !.kind = "on_message", !.pc = "done",
                                      !.user = author, !.channel = channel]]
  /\ UNCHANGED <<active_threads, chats, memory, messages, accepted>>

\* on_message cancelling the calls still pending on the thread before it
\* dispatches the new text.
OnMessage_CancelsPending(i) ==
  /\ CanStart(i)
  /\ \E t \in ExistingThreads :
       LET n == accepted + 1
           task == [NewTask EXCEPT !.kind = "on_message", !.thread = t,
                                   !.input = UserText(n), !.seq = n]
           cancelled == [j \in Tasks |->
                           IF tasks[j].pc = "exchange" /\ tasks[j].thread = t
                           THEN [tasks[j] EXCEPT !.pc = "done"]
                           ELSE tasks[j]]
       IN  /\ active_threads[t] # 0
           /\ messages' = [messages EXCEPT
                 ![t] = Append(@, PlatformMessage("human", UserText(n)))]
           /\ accepted' = n
           /\ tasks' = [cancelled EXCEPT
                          ![i] = AfterCreate(task, active_threads[t])]
           /\ UNCHANGED <<active_threads, chats, memory>>

\* on_message without the test for a leading "~".
OnMessage_NoTildeCheck(i) ==
  /\ CanStart(i)
  /\ \E t \in ExistingThreads, shape \in {"plain", "tilde", "empty"} :
       LET n == accepted + 1
           content == CASE shape = "plain" -> UserText(n)
                        [] shape = "tilde" -> TildeText
                        [] shape = "empty" -> EmptyText
           task == [NewTask EXCEPT !.kind = "on_message", !.thread = t,
                                   !.input = content, !.user = "human",
                                   !.channel = "own_thread"]
       IN  /\ messages' = [messages EXCEPT
                             ![t] = Append(@, PlatformMessage("human", content))]
           /\ CASE shape = "empty" ->
                     \* message.content[0] raises IndexError
                     /\ tasks' = [tasks EXCEPT ![i] = Raise(task, "IndexError")]
                     /\ UNCHANGED <<active_threads, chats, memory, accepted>>
                [] shape \in {"plain", "tilde"} ->
                     /\ accepted' = n
                     /\ IF active_threads[t] # 0
                        THEN /\ tasks' = [tasks EXCEPT ![i] =
                                  AfterCreate([task EXCEPT !.seq = n],
                                              active_threads[t])]
                             /\ UNCHANGED <<active_threads, chats, memory>>
                        ELSE CreateChat(i, t, [task EXCEPT !.seq = n])

\* A human's message in a bot-owned thread.
OnMessage(i) ==
  /\ CanStart(i)
  /\ \E t \in ExistingThreads, shape \in {"plain", "tilde", "empty"} :
       LET n == accepted + 1
           content == CASE shape = "plain" -> UserText(n)
                        [] shape = "tilde" -> TildeText
                        [] shape = "empty" -> EmptyText
           task == [NewTask EXCEPT !.kind = "on_message", !.thread = t,
                                   !.input = content, !.user = "human",
                                   !.channel = "own_thread"]
       IN  /\ messages' = [messages EXCEPT
                             ![t] = Append(@, PlatformMessage("human", content))]
           /\ CASE shape = "empty" ->
                     \* message.content[0] raises IndexError
                     /\ tasks' = [tasks EXCEPT ![i] = Raise(task, "IndexError")]
                     /\ UNCHANGED <<active_threads, chats, memory, accepted>>
                [] shape = "tilde" ->
                     /\ tasks' = [tasks EXCEPT ![i] = [task EXCEPT !.pc = "done"]]
                     /\ UNCHANGED <<active_threads, chats, memory, accepted>>
                [] shape = "plain" ->
                     /\ accepted' = n
                     /\ IF active_threads[t] # 0
                        THEN /\ tasks' = [tasks EXCEPT ![i] =
                                  AfterCreate([task EXCEPT !.seq = n],
                                              active_threads[t])]
                             /\ UNCHANGED <<active_threads, chats, memory>>
                        ELSE CreateChat(i, t, [task EXCEPT !.seq = n])

(***************************************************************************)
(* _create_chat, resuming a thread that has messages                       *)
(***************************************************************************)
\* message = await thread.send("Reloading memory from thread ...")
CreateNotice(i) ==
  /\ tasks[i].pc = "create_notice"
  /\ LET t == tasks[i].thread IN
       \/ /\ messages' = [messages EXCEPT
                            ![t] = Append(@, PlatformMessage("bot", ReloadingText))]
          /\ tasks' = [tasks EXCEPT ![i].pc = "create_load",
                                    ![i].msg = Len(messages[t]) + 1]
       \/ /\ tasks' = [tasks EXCEPT ![i] = Raise(@, "create_notice")]
          /\ UNCHANGED messages
  /\ UNCHANGED <<active_threads, chats, memory, accepted>>

\* The load called with a bot_name that is not the bot's identity.
CreateLoad_WrongBotName(i) ==
  /\ tasks[i].pc = "create_load"
  /\ LET t == tasks[i].thread
         a == tasks[i].assistant
         turns == Reconstruct(messages[t], "assistant")
     IN
       \/ /\ memory' = [memory EXCEPT ![a] = turns]
          /\ tasks' = [tasks EXCEPT ![i].pc = "create_edit",
                                    ![i].did_load = TRUE,
                                    ![i].loaded = turns]
       \/ /\ tasks' = [tasks EXCEPT ![i] = Raise(@, "create_load")]
          /\ UNCHANGED memory
  /\ UNCHANGED <<active_threads, chats, messages, accepted>>

\* await assistant.load_memory_from_thread(thread=thread, bot_name=...)
CreateLoad(i) ==
  /\ tasks[i].pc = "create_load"
  /\ LET t == tasks[i].thread
         a == tasks[i].assistant
         turns == Reconstruct(messages[t], "bot")
     IN
       \/ /\ memory' = [memory EXCEPT ![a] = turns]
          /\ tasks' = [tasks EXCEPT ![i].pc = "create_edit",
                                    ![i].did_load = TRUE,
                                    ![i].loaded = turns]
       \/ /\ tasks' = [tasks EXCEPT ![i] = Raise(@, "create_load")]
          /\ UNCHANGED memory
  /\ UNCHANGED <<active_threads, chats, messages, accepted>>

\* await message.edit(content=f"{prefix}\n\n...")
CreateEdit(i) ==
  /\ tasks[i].pc = "create_edit"
  /\ LET t == tasks[i].thread IN
       \/ /\ messages' = EditMessage(messages, t, tasks[i].msg, PrefixText)
          /\ tasks' = [tasks EXCEPT ![i].pc = "create_exchange"]
       \/ /\ tasks' = [tasks EXCEPT ![i] = Raise(@, "create_edit")]
          /\ UNCHANGED messages
  /\ UNCHANGED <<active_threads, chats, memory, accepted>>

\* bot_response = await assistant.async_process_input(TIME_PASSED_MESSAGE)
CreateExchange(i) ==
  /\ tasks[i].pc = "create_exchange"
  /\ LET a == tasks[i].assistant IN
       \/ /\ memory' = [memory EXCEPT ![a] =
                          SaveContext(@, TIME_PASSED_MESSAGE,
                                      Response(TIME_PASSED_MESSAGE))]
          /\ tasks' = [tasks EXCEPT ![i].pc = "create_reply"]
       \/ /\ tasks' = [tasks EXCEPT ![i] = Raise(@, "create_exchange")]
          /\ UNCHANGED memory
  /\ UNCHANGED <<active_threads, chats, messages, accepted>>

\* await message.edit(content=reply), then the Chat is built and registered
\* and _create_chat returns it.
CreateReply(i) ==
  /\ tasks[i].pc = "create_reply"
  /\ LET t == tasks[i].thread
         c == Len(chats) + 1
     IN
       \/ /\ messages' = EditMessage(messages, t, tasks[i].msg, PrefixReplyText)
          /\ chats' = Append(chats, Chat(t, tasks[i].assistant))
          /\ active_threads' = RegisterChat(active_threads, t, c)
          /\ tasks' = [tasks EXCEPT ![i] = AfterCreate([@ EXCEPT !.msg = 0], c)]
       \/ /\ tasks' = [tasks EXCEPT ![i] = Raise(@, "create_reply")]
          /\ UNCHANGED <<messages, chats, active_threads>>
  /\ UNCHANGED <<memory, accepted>>

(***************************************************************************)
(* _async_send_message_to_bot                                              *)
(***************************************************************************)
\* response_message = await chat.thread.send("`Awaiting bot response...`"),
\* then the typing context is entered and the model exchange starts.
SendPlaceholder(i) ==
  /\ tasks[i].pc = "send_placeholder"
  /\ LET t == chats[tasks[i].chat].thread
         posted == [messages EXCEPT
                      ![t] = Append(@, PlatformMessage("bot", AwaitingText))]
         k == Len(messages[t]) + 1
     IN
       \/ /\ messages' = posted
          /\ tasks' = [tasks EXCEPT
                         ![i].pc = "exchange", ![i].msg = k]
       \/ \* channel.typing() raises: caught by the except clause
          /\ messages' = posted
          /\ tasks' = [tasks EXCEPT
                         ![i].pc = "edit_error", ![i].msg = k,
                         ![i].exc = "typing"]
       \/ \* thread.send raises, outside the try block
          /\ tasks' = [tasks EXCEPT ![i] = Raise(@, "send_placeholder")]
          /\ UNCHANGED messages
  /\ UNCHANGED <<active_threads, chats, memory, accepted>>

\* The exchange made with a blocking call: the event loop runs one call at a
\* time, so a call returns only when no earlier task's call is still pending.
Exchange_Blocking(i) ==
  /\ tasks[i].pc = "exchange"
  /\ \A j \in Tasks : j < i => tasks[j].pc \notin {"exchange", "create_exchange"}
  /\ LET a == chats[tasks[i].chat].assistant IN
       \/ /\ memory' = [memory EXCEPT ![a] =
                          SaveContext(@, tasks[i].input, Response(tasks[i].input))]
          /\ tasks' = [tasks EXCEPT ![i].pc = "edit_reply"]
       \/ /\ tasks' = [tasks EXCEPT ![i].pc = "edit_error",
                                    ![i].exc = "exchange"]
          /\ UNCHANGED memory
  /\ UNCHANGED <<active_threads, chats, messages, accepted>>

\* bot_response = await chat.assistant.async_process_input(input_text)
Exchange(i) ==
  /\ tasks[i].pc = "exchange"
  /\ LET a == chats[tasks[i].chat].assistant IN
       \/ /\ memory' = [memory EXCEPT ![a] =
                          SaveContext(@, tasks[i].input, Response(tasks[i].input))]
          /\ tasks' = [tasks EXCEPT ![i].pc = "edit_reply"]
       \/ /\ tasks' = [tasks EXCEPT ![i].pc = "edit_error",
                                    ![i].exc = "exchange"]
          /\ UNCHANGED memory
  /\ UNCHANGED <<active_threads, chats, messages, accepted>>

\* The reply posted as a new message instead of edited into the placeholder.
EditReply_SendsNew(i) ==
  /\ tasks[i].pc = "edit_reply"
  /\ LET t == chats[tasks[i].chat].thread IN
       \/ /\ messages' = [messages EXCEPT ![t] =
                Append(@, PlatformMessage("bot", Response(tasks[i].input)))]
          /\ tasks' = [tasks EXCEPT ![i].pc = "done"]
       \/ /\ tasks' = [tasks EXCEPT ![i].pc = "edit_error",
                                    ![i].exc = "edit_reply"]
          /\ UNCHANGED messages
  /\ UNCHANGED <<active_threads, chats, memory, accepted>>

\* await response_message.edit(content=bot_response)
EditReply(i) ==
  /\ tasks[i].pc = "edit_reply"
  /\ LET t == chats[tasks[i].chat].thread IN
       \/ /\ messages' = EditMessage(messages, t, tasks[i].msg,
                                    Response(tasks[i].input))
          /\ tasks' = [tasks EXCEPT ![i].pc = "done"]
       \/ /\ tasks' = [tasks EXCEPT ![i].pc = "edit_error",
                                    ![i].exc = "edit_reply"]
          /\ UNCHANGED messages
  /\ UNCHANGED <<active_threads, chats, memory, accepted>>

\* The except clause also forgetting every session before it reports.
EditError_ClearsRegistry(i) ==
  /\ tasks[i].pc = "edit_error"
  /\ active_threads' = [t \in Threads |-> 0]
  /\ LET t == chats[tasks[i].chat].thread IN
       \/ /\ messages' = EditMessage(messages, t, tasks[i].msg, ErrorText)
          /\ tasks' = [tasks EXCEPT ![i].pc = "done"]
       \/ /\ tasks' = [tasks EXCEPT ![i] = Raise(@, "edit_error")]
          /\ UNCHANGED messages
  /\ UNCHANGED <<chats, memory, accepted>>

\* except Exception: await response_message.edit(content="Oh no, ...")
EditError(i) ==
  /\ tasks[i].pc = "edit_error"
  /\ LET t == chats[tasks[i].chat].thread IN
       \/ /\ messages' = EditMessage(messages, t, tasks[i].msg, ErrorText)
          /\ tasks' = [tasks EXCEPT ![i].pc = "done"]
       \/ /\ tasks' = [tasks EXCEPT ![i] = Raise(@, "edit_error")]
          /\ UNCHANGED messages
  /\ UNCHANGED <<active_threads, chats, memory, accepted>>

(***************************************************************************)
(* chat (slash command), on_raw_reaction_add, _spawn_thread                *)
(***************************************************************************)
\* /chat without the test against the allowed channels.
ChatCommand_NoChannelCheck(i) ==
  /\ CanStart(i)
  /\ \E allowed \in BOOLEAN, initial_text_input \in {None, CommandText} :
       tasks' = [tasks EXCEPT ![i] =
                   [NewTask EXCEPT !.kind = "chat", !.user = "human",
                                   !.channel = IF allowed THEN "allowed"
                                                          ELSE "not_allowed",
                                   !.input = initial_text_input,
                                   !.pc = "send_title_card"]]
  /\ UNCHANGED <<active_threads, chats, memory, messages, accepted>>

\* /chat: refused outside the allowed channels, otherwise the title card is
\* sent with ctx.send.
ChatCommand(i) ==
  /\ CanStart(i)
  /\ \E allowed \in BOOLEAN, initial_text_input \in {None, CommandText} :
       tasks' = [tasks EXCEPT ![i] =
                   [NewTask EXCEPT !.kind = "chat", !.user = "human",
                                   !.channel = IF allowed THEN "allowed"
                                                          ELSE "not_allowed",
                                   !.input = initial_text_input,
                                   !.pc = IF allowed THEN "send_title_card"
                                                     ELSE "done"]]
  /\ UNCHANGED <<active_threads, chats, memory, messages, accepted>>

\* message = await ctx.send(embed=title_card_embed)
SendTitleCard(i) ==
  /\ tasks[i].pc = "send_title_card"
  /\ \/ tasks' = [tasks EXCEPT ![i].pc = "create_thread"]
     \/ tasks' = [tasks EXCEPT ![i] = Raise(@, "send_title_card")]
  /\ UNCHANGED <<active_threads, chats, memory, messages, accepted>>

\* on_raw_reaction_add without the check against get_admin_users().
ReactionAdd_NoAdminCheck(i) ==
  /\ CanStart(i)
  /\ \E user \in {"bot", "admin", "other"}, emoji \in {"brain", "other"} :
       tasks' = [tasks EXCEPT ![i] =
                   [NewTask EXCEPT !.kind = "reaction",
                                   !.user = user, !.emoji = emoji,
                                   !.pc = IF user # "bot" /\ emoji = "brain"
                                          THEN "fetch_message" ELSE "done"]]
  /\ UNCHANGED <<active_threads, chats, memory, messages, accepted>>

\* A reaction: ignored when it is the bot's own, when the emoji is not the
\* brain, or when the user is not an admin; otherwise the message is fetched.
ReactionAdd(i) ==
  /\ CanStart(i)
  /\ \E user \in {"bot", "admin", "other"}, emoji \in {"brain", "other"} :
       tasks' = [tasks EXCEPT ![i] =
                   [NewTask EXCEPT !.kind = "reaction",
                                   !.user = user, !.emoji = emoji,
                                   !.pc = IF user = "admin" /\ emoji = "brain"
                                          THEN "fetch_message" ELSE "done"]]
  /\ UNCHANGED <<active_threads, chats, memory, messages, accepted>>

\* message = await channel.fetch_message(payload.message_id); its content is
\* the initial text.
FetchMessage(i) ==
  /\ tasks[i].pc = "fetch_message"
  /\ \/ tasks' = [tasks EXCEPT ![i].pc = "create_thread",
                               ![i].input = ReactedText]
     \/ tasks' = [tasks EXCEPT ![i] = Raise(@, "fetch_message")]
  /\ UNCHANGED <<active_threads, chats, memory, messages, accepted>>

\* thread = await message.create_thread(name=chat_title): the platform
\* creates the thread; the handler resumes in SpawnResume.
CreateThread(i) ==
  /\ tasks[i].pc = "create_thread"
  /\ \/ /\ Len(messages) < MaxThreads
        /\ messages' = Append(messages, <<>>)
        /\ tasks' = [tasks EXCEPT ![i].pc = "thread_created",
                                  ![i].thread = Len(messages) + 1]
     \/ /\ tasks' = [tasks EXCEPT ![i] = Raise(@, "create_thread")]
        /\ UNCHANGED messages
  /\ UNCHANGED <<active_threads, chats, memory, accepted>>

\* chat = await self._create_chat(thread=thread, title=chat_title)
SpawnResume(i) ==
  /\ tasks[i].pc = "thread_created"
  /\ CreateChat(i, tasks[i].thread, tasks[i])
  /\ UNCHANGED <<messages, accepted>>

\* await chat.thread.send(embed=self._initial_message_embed(...))
SendEmbed(i) ==
  /\ tasks[i].pc = "send_embed"
  /\ LET t == chats[tasks[i].chat].thread IN
       \/ /\ messages' = [messages EXCEPT
                            ![t] = Append(@, PlatformMessage("bot", EmbedText))]
          /\ tasks' = [tasks EXCEPT ![i].pc = "send_placeholder"]
       \/ /\ tasks' = [tasks EXCEPT ![i] = Raise(@, "send_embed")]
          /\ UNCHANGED messages
  /\ UNCHANGED <<active_threads, chats, memory, accepted>>

Init ==
  /\ active_threads = [t \in Threads |-> 0]
  /\ chats = <<>>
  /\ memory = <<>>
  /\ \E h \in 0..MaxHist : messages = <<OldHistory(h)>>
  /\ tasks = [i \in Tasks |-> NewTask]
  /\ accepted = 0

Next ==
  \/ \E i \in Tasks : OnMessageIgnored(i)
  \/ \E i \in Tasks : OnMessage(i)
  \/ \E i \in Tasks : CreateNotice(i)
  \/ \E i \in Tasks : CreateLoad(i)
  \/ \E i \in Tasks : CreateEdit(i)
  \/ \E i \in Tasks : CreateExchange(i)
  \/ \E i \in Tasks : CreateReply(i)
  \/ \E i \in Tasks : SendPlaceholder(i)
  \/ \E i \in Tasks : Exchange(i)
  \/ \E i \in Tasks : EditReply(i)
  \/ \E i \in Tasks : EditError(i)
  \/ \E i \in Tasks : ChatCommand(i)
  \/ \E i \in Tasks : SendTitleCard(i)
  \/ \E i \in Tasks : ReactionAdd(i)
  \/ \E i \in Tasks : FetchMessage(i)
  \/ \E i \in Tasks : CreateThread(i)
  \/ \E i \in Tasks : SpawnResume(i)
  \/ \E i \in Tasks : SendEmbed(i)

Spec == Init /\ [][Next]_vars

\* The event loop runs every task that can run, and every await resolves.
FairSpec == Spec /\ WF_vars(Next)

\* The steps with which the handler run by task i continues after an await.
Continue(i) ==
  \/ CreateNotice(i) \/ CreateLoad(i) \/ CreateEdit(i) \/ CreateExchange(i)
  \/ CreateReply(i) \/ SendPlaceholder(i) \/ Exchange(i) \/ EditReply(i)
  \/ EditError(i) \/ SendTitleCard(i) \/ FetchMessage(i) \/ CreateThread(i)
  \/ SpawnResume(i) \/ SendEmbed(i)

\* The first handler may wait for ever (its model call or its history fetch
\* never returns); the event loop resumes every other handler whose await
\* has resolved.
HungTask == 1

HangSpec == Spec /\ \A i \in Tasks \ {HungTask} : WF_vars(Continue(i))

\* load_memory_from_thread is awaited without a timeout: the history fetch
\* may never complete, so its return is not guaranteed; the event loop
\* resumes every handler at every other await.
LoadHangSpec ==
  Spec /\ \A i \in Tasks : WF_vars(tasks[i].pc # "create_load" /\ Continue(i))

TypeOK ==
  /\ active_threads \in [Threads -> 0..Len(chats)]
  /\ Len(chats) <= MaxTasks
  /\ Len(memory) <= MaxTasks
  /\ Len(messages) <= MaxThreads
  /\ \A c \in 1..Len(chats) : /\ chats[c].thread \in ExistingThreads
                              /\ chats[c].assistant \in 1..Len(memory)
  /\ \A i \in Tasks : /\ tasks[i].chat \in 0..Len(chats)
                      /\ tasks[i].assistant \in 0..Len(memory)
                      /\ tasks[i].thread \in 0..Len(messages)

(***************************************************************************)
(* Properties                                                              *)
(***************************************************************************)
\* The positions of a task inside _create_chat's resume sequence; an
\* exception raised at one of them carries the same name in exc.
CreatePcs ==
  {"create_notice", "create_load", "create_edit", "create_exchange",
   "create_reply"}

Terminated(i) == tasks[i].pc \in {"done", "raised"}

ChatsOf(t) == {c \in 1..Len(chats) : chats[c].thread = t}

\* C1: trigger events handled concurrently for one unregistered thread
\* create exactly one Chat, and all of them dispatch to that Chat.
C1_OneChatPerThread ==
  /\ \A t \in Threads : Cardinality(ChatsOf(t)) <= 1
  /\ \A i, j \in Tasks :
       (/\ tasks[i].chat # 0
        /\ tasks[j].chat # 0
        /\ chats[tasks[i].chat].thread = chats[tasks[j].chat].thread)
       => tasks[i].chat = tasks[j].chat

\* C2: at most one async_process_input call is outstanding on an assistant.
C2_OneOutstandingCall ==
  \A a \in 1..Len(memory) : Cardinality(Outstanding(a)) <= 1

\* The turns process calls have appended to assistant a's memory: what
\* follows the turns its creator loaded from the thread.
Appended(a) ==
  LET loaders == {i \in Tasks : tasks[i].assistant = a /\ tasks[i].did_load}
      k == IF loaders = {} THEN 0
           ELSE Len(tasks[CHOOSE i \in loaders : TRUE].loaded)
  IN  SubSeq(memory[a], k + 1, Len(memory[a]))

\* C3: the turns appended to an assistant's memory are in the order in which
\* on_message accepted the messages, each human turn followed by its reply.
C3_TurnsInAcceptanceOrder ==
  \A a \in 1..Len(memory) :
    LET m == Appended(a)
        accepted_text(j) == /\ m[j].role = "Human"
                            /\ m[j].text.kind = "text"
    IN  /\ \A j, k \in 1..Len(m) :
             (j < k /\ accepted_text(j) /\ accepted_text(k))
             => m[j].text.n < m[k].text.n
        /\ \A j \in 1..Len(m) :
             accepted_text(j)
             => /\ j < Len(m)
                /\ m[j + 1] = Turn("Agent", Response(m[j].text))

\* A task's _create_chat has just raised.
CreationFails(i) ==
  /\ tasks[i].exc = "none"
  /\ tasks'[i].exc \in CreatePcs

\* C4: when creation fails in _create_chat nothing is registered and the
\* exception leaves _create_chat; every registered Chat has been through its
\* whole creation sequence.
C4_FailedCreationRegistersNothing ==
  /\ [](\A i \in Tasks :
          tasks[i].exc \in CreatePcs
          => /\ tasks[i].chat = 0
             /\ Terminated(i)
             /\ tasks[i].kind # "reaction" => tasks[i].pc = "raised"
             /\ \A c \in 1..Len(chats) : chats[c].assistant # tasks[i].assistant)
  /\ [](\A t \in Threads :
          active_threads[t] # 0
          => \A i \in Tasks :
               tasks[i].pc \in CreatePcs
               => tasks[i].assistant # chats[active_threads[t]].assistant)
  /\ [][\A i \in Tasks : CreationFails(i)
          => active_threads' = active_threads /\ chats' = chats]_vars

\* A creation has failed on a thread where another creation got through its
\* whole resume sequence and is registered.
C4_Witness ==
  \E i, j \in Tasks :
    /\ tasks[i].exc \in CreatePcs
    /\ tasks[j].did_load
    /\ tasks[j].chat # 0
    /\ tasks[j].thread = tasks[i].thread
    /\ active_threads[tasks[j].thread] = tasks[j].chat

\* C5: when fetching the history fails the trigger still gets a registered
\* session with empty memory and its message is processed on it.
C5_HistoryFailureDegrades ==
  \A i \in Tasks :
    (tasks[i].exc = "create_load" /\ Terminated(i))
    => /\ tasks[i].chat # 0
       /\ active_threads[tasks[i].thread] = tasks[i].chat
       /\ tasks[i].pc = "done"

HasErrorText(t) ==
  \E k \in 1..Len(messages[t]) : messages[t][k].content = ErrorText

\* C6: a handler that ended after one of its model exchanges raised has left
\* an error text in the thread.
C6_ExchangeFailureSurfaced ==
  \A i \in Tasks :
    (Terminated(i) /\ tasks[i].exc \in {"exchange", "create_exchange"})
    => HasErrorText(tasks[i].thread)

\* C7: once an exchange has failed in _async_send_message_to_bot on the
\* registered Chat of a thread, that Chat stays the thread's entry.
C7_FailedTurnKeepsSession ==
  [][\A i \in Tasks :
       (/\ tasks[i].exc = "exchange"
        /\ active_threads[tasks[i].thread] = tasks[i].chat)
       => active_threads'[tasks[i].thread] = tasks[i].chat]_vars

\* Task i's _create_chat call is entered in this step (from _spawn_thread)
\* for a thread that has an entry.
CreateCallOnRegistered(i) ==
  /\ tasks[i].pc = "thread_created"
  /\ tasks'[i].pc # "thread_created"
  /\ active_threads[tasks[i].thread] # 0

\* C8: _create_chat for a thread that has an entry returns that entry's Chat,
\* constructs no assistant, reloads nothing, starts no exchange and leaves
\* the registry as it is.
C8_CreateOnRegisteredIsNoOp ==
  [][\A i \in Tasks :
       CreateCallOnRegistered(i)
       => /\ tasks'[i].chat = active_threads[tasks[i].thread]
          /\ tasks'[i].assistant = 0
          /\ tasks'[i].pc \notin CreatePcs
          /\ ~tasks'[i].did_load
          /\ active_threads' = active_threads
          /\ chats' = chats
          /\ memory' = memory
          /\ messages' = messages]_vars

\* A spawn handler holds a Chat it did not build: _create_chat returned the
\* registered one.
C8_Witness ==
  \E i \in Tasks :
    /\ tasks[i].kind \in {"chat", "reaction"}
    /\ tasks[i].chat # 0
    /\ tasks[i].assistant = 0
    /\ active_threads[tasks[i].thread] = tasks[i].chat

\* Task i resumed its thread, its one message got its reply, and no other
\* handler used the same Chat.
ResumedAndAnswered(i) ==
  /\ tasks[i].kind = "on_message"
  /\ tasks[i].did_load
  /\ tasks[i].pc = "done"
  /\ tasks[i].exc = "none"
  /\ \A j \in Tasks : j # i => tasks[j].chat # tasks[i].chat

\* C9 as stated: K loaded turns and one processed message leave K+2 turns.
C9_ResumeLeavesKPlus2 ==
  \A i \in Tasks :
    ResumedAndAnswered(i)
    => Len(memory[tasks[i].assistant]) = Len(tasks[i].loaded) + 2

\* C9: K loaded turns and one processed message leave K+4 turns: the K
\* loaded ones, TIME_PASSED_MESSAGE and its reply, the message and its reply.
C9_ResumeLeavesKPlus4 ==
  \A i \in Tasks :
    ResumedAndAnswered(i)
    => memory[tasks[i].assistant] =
         tasks[i].loaded \o
         <<Turn("Human", TIME_PASSED_MESSAGE),
           Turn("Agent", Response(TIME_PASSED_MESSAGE)),
           Turn("Human", tasks[i].input),
           Turn("Agent", Response(tasks[i].input))>>

C9_Witness ==
  \E i \in Tasks : ResumedAndAnswered(i) /\ Len(tasks[i].loaded) >= MaxHist

Accepts(i, t) ==
  /\ tasks[i].pc = "idle"
  /\ tasks'[i].kind = "on_message"
  /\ tasks'[i].seq # 0
  /\ tasks'[i].thread = t

C11_SessionNeverReplaced ==
  [][\A t \in Threads :
       active_threads[t] # 0 => active_threads'[t] = active_threads[t]]_vars

\* C12: load_memory_from_thread is called at most once per assistant, only
\* in a creation for a thread that already has messages, and before any
\* async_process_input on that assistant: the assistant it is called on has
\* processed no turn, has no exchange in flight, belongs to no Chat yet and is
\* known to the creating task alone; a task that has made the call never
\* makes it again.
C12_LoadOnceBeforeAnyTurn ==
  /\ [](\A i \in Tasks :
          tasks[i].pc = "create_load" =>
            LET a == tasks[i].assistant
                t == tasks[i].thread
            IN  /\ a # 0
                /\ memory[a] = ConfigureMemory
                /\ ~tasks[i].did_load
                /\ Outstanding(a) = {}
                /\ \A c \in 1..Len(chats) : chats[c].assistant # a
                /\ \A j \in Tasks \ {i} : tasks[j].assistant # a
                \* a message older than the notice, other than the trigger
                /\ \E k \in 1..(tasks[i].msg - 1) :
                     messages[t][k].content # tasks[i].input)
  /\ [][\A i \in Tasks :
          /\ tasks[i].assistant # 0 => tasks'[i].assistant = tasks[i].assistant
          /\ (tasks[i].pc # "create_load" /\ tasks'[i].pc = "create_load")
               => tasks[i].pc = "create_notice"
          /\ tasks[i].pc = "create_notice"
               => /\ ~tasks[i].did_load
                  /\ tasks[i].exc = "none"]_vars

\* A resumed creation after its one load and before its first exchange.
C12_Witness ==
  \E i \in Tasks :
    /\ tasks[i].pc = "create_exchange"
    /\ tasks[i].did_load
    /\ Len(tasks[i].loaded) > 0
    /\ memory[tasks[i].assistant] = tasks[i].loaded

\* The step in which task i constructs its CourseAssistant: the one pass
\* through _create_chat that found no entry for the thread.
Creates(i) == tasks[i].assistant = 0 /\ tasks'[i].assistant # 0

\* The session that step starts is Resuming when _create_chat goes on to
\* reload memory, Initializing when it registers the Chat at once.
StartsResuming(i) == tasks'[i].pc = "create_notice"

\* The messages of the thread when the client was started.
AtStartup(t) ==
  Cardinality({k \in 1..Len(messages[t]) : messages[t][k].content.kind = "old"})

OwnFailures ==
  CreatePcs \cup {"send_placeholder", "send_embed", "edit_error"}

\* The text task i dispatched has its answer in its placeholder.
Delivered(i) ==
  /\ tasks[i].chat # 0
  /\ tasks[i].msg # 0
  /\ messages[chats[tasks[i].chat].thread][tasks[i].msg].content
       \in {Response(tasks[i].input), ErrorText}

\* Task i handles an accepted text on a thread other than the hung task's.
OnOtherThread(i) ==
  /\ i # HungTask
  /\ tasks[i].thread # 0
  /\ tasks[i].thread # tasks[HungTask].thread
  /\ ~Terminated(i)

\* C14: a model call or history fetch that never returns on one thread does
\* not hold up another thread: a text accepted there always reaches the end
\* of its handler, with the reply or the error text in its placeholder
\* unless one of that handler's own awaits raised out of it.
C14_OtherThreadProgresses ==
  \A i \in Tasks :
    OnOtherThread(i) ~>
      (Terminated(i) /\ (Delivered(i) \/ tasks[i].exc \in OwnFailures))

\* A reply is delivered on one thread while the hung task's exchange on
\* another thread is still pending.
C14_Witness ==
  \E i \in Tasks :
    /\ i # HungTask
    /\ tasks[HungTask].pc \in {"exchange", "create_exchange", "create_load"}
    /\ tasks[i].thread \notin {0, tasks[HungTask].thread}
    /\ tasks[i].pc = "done"
    /\ Delivered(i)

\* Task i takes a step of a handler in which something has failed: the step
\* that raises, and every step of the handler after it.
FailingStep(i) == tasks'[i] # tasks[i] /\ tasks'[i].exc # "none"

\* C15: a failure while handling a trigger event for a thread leaves the
\* _active_threads entry of every other thread unchanged, and the Chat and
\* the assistant memory of that entry with it.
C15_FailureScopedToThread ==
  [][\A i \in Tasks :
       FailingStep(i) =>
         \A u \in Threads \ {tasks'[i].thread} :
           /\ active_threads'[u] = active_threads[u]
           /\ active_threads[u] # 0 =>
                LET c == active_threads[u] IN
                  /\ chats'[c] = chats[c]
                  /\ memory'[chats[c].assistant] = memory[chats[c].assistant]]_vars

\* A handler has failed on one thread while another thread has a session
\* that has processed a turn.
C15_Witness ==
  \E i \in Tasks, u \in Threads :
    /\ tasks[i].exc # "none"
    /\ tasks[i].thread \notin {0, u}
    /\ active_threads[u] # 0
    /\ memory[chats[active_threads[u]].assistant] # ConfigureMemory

\* The reaction task i handles does not come from an admin's brain emoji:
\* it is the bot's own, or another emoji, or a user who is not an admin.
Unauthorized(i) ==
  /\ tasks[i].kind = "reaction"
  /\ ~(tasks[i].user = "admin" /\ tasks[i].emoji = "brain")

\* C16: a reaction from a user who is not an admin (or from the bot, or with
\* another emoji than the brain) never creates a thread, never adds or
\* changes an _active_threads entry and never invokes an assistant: its
\* handler ends at once, holding no thread, Chat or assistant, and the step
\* that handles it changes nothing else.
C16_UnauthorizedReactionDoesNothing ==
  /\ [](\A i \in Tasks :
          Unauthorized(i) =>
            /\ tasks[i].pc = "done"
            /\ tasks[i].thread = 0
            /\ tasks[i].chat = 0
            /\ tasks[i].assistant = 0
            /\ tasks[i].msg = 0)
  /\ [][\A i \in Tasks :
          (tasks'[i] # tasks[i] /\ tasks'[i].kind = "reaction"
             /\ ~(tasks'[i].user = "admin" /\ tasks'[i].emoji = "brain"))
            => UNCHANGED <<active_threads, chats, memory, messages, accepted>>]_vars

\* A brain reaction of a user who is not an admin has been handled.
C16_Witness ==
  \E i \in Tasks :
    /\ Unauthorized(i)
    /\ tasks[i].user = "other"
    /\ tasks[i].emoji = "brain"
    /\ tasks[i].pc = "done"

\* Task i has posted its placeholder in _async_send_message_to_bot.
HasPlaceholder(i) == tasks[i].chat # 0 /\ tasks[i].msg # 0

\* response_message as the platform holds it now.
Placeholder(i) == messages[chats[tasks[i].chat].thread][tasks[i].msg]

\* The messages of all threads that are placeholders or were posted as one.
PlaceholderMessages ==
  {p \in UNION {{<<t, k>> : k \in 1..Len(messages[t])} : t \in ExistingThreads} :
     /\ messages[p[1]][p[2]].author = "bot"
     /\ messages[p[1]][p[2]].content.kind \in {"awaiting", "response", "error"}}

\* C17 as stated: one placeholder per dispatched text, untouched while the
\* model call is pending; once the call has resolved and the handler has
\* ended without an exception leaving it, the placeholder has been edited
\* exactly once: to the reply when the call returned, to the error text when
\* it raised.
C17_PlaceholderEditedOnceToOutcome ==
  \A i \in Tasks :
    HasPlaceholder(i) =>
      /\ tasks[i].pc = "exchange" =>
           /\ Placeholder(i).content = AwaitingText
           /\ Placeholder(i).edits = 0
      /\ (Terminated(i) /\ tasks[i].exc \in {"none", "edit_reply", "exchange"}) =>
           /\ Placeholder(i).edits = 1
           /\ Placeholder(i).content =
                IF tasks[i].exc = "exchange"
                THEN ErrorText ELSE Response(tasks[i].input)

\* C17 amended: one placeholder per dispatched text, posted before the model
\* call and untouched until the call has resolved; then it is edited at most
\* once: to the reply when the call returned and the edit went through, to
\* the error text when the typing context, the call or the edit of the reply
\* raised, and not at all when the edit of the error text raises.  The reply
\* is in the placeholder only after the call has returned it.
C17_PlaceholderProtocol ==
  /\ Cardinality(PlaceholderMessages)
       = Cardinality({i \in Tasks : HasPlaceholder(i)})
  /\ \A i \in Tasks :
       /\ tasks[i].pc = "send_placeholder" => tasks[i].msg = 0
       /\ HasPlaceholder(i) =>
            LET a == chats[tasks[i].chat].assistant IN
            /\ <<chats[tasks[i].chat].thread, tasks[i].msg>> \in PlaceholderMessages
            /\ \A j \in Tasks \ {i} :
                 HasPlaceholder(j) =>
                   \/ chats[tasks[j].chat].thread # chats[tasks[i].chat].thread
                   \/ tasks[j].msg # tasks[i].msg
            /\ tasks[i].pc \in {"exchange", "edit_reply", "edit_error",
                                "done", "raised"}
            /\ (~Terminated(i) \/ tasks[i].exc = "edit_error") =>
                 /\ Placeholder(i).content = AwaitingText
                 /\ Placeholder(i).edits = 0
            /\ (Terminated(i) /\ tasks[i].exc # "edit_error") =>
                 /\ Placeholder(i).edits = 1
                 /\ Placeholder(i).content =
                      IF tasks[i].exc = "none"
                      THEN Response(tasks[i].input) ELSE ErrorText
            /\ Placeholder(i).content = Response(tasks[i].input) =>
                 \E k \in 1..Len(memory[a]) :
                   memory[a][k] = Turn("Agent", Response(tasks[i].input))

\* The model call returned, the edit of the reply raised, and the placeholder
\* was edited once, to the error text.
C17_Witness ==
  \E i \in Tasks :
    /\ HasPlaceholder(i)
    /\ tasks[i].pc = "done"
    /\ tasks[i].exc = "edit_reply"
    /\ Placeholder(i).content = ErrorText
    /\ Placeholder(i).edits = 1

\* C18: no two sessions share an assistant: any two distinct Chats hold
\* distinct CourseAssistant instances, each with a memory buffer of its own,
\* and an assistant under construction belongs to one creation only.
C18_DistinctAssistants ==
  /\ \A c, d \in 1..Len(chats) :
       c # d => chats[c].assistant # chats[d].assistant
  /\ \A c \in 1..Len(chats) : chats[c].assistant \in 1..Len(memory)
  /\ \A i, j \in Tasks :
       (i # j /\ tasks[i].assistant # 0)
         => tasks[i].assistant # tasks[j].assistant

\* Two Chats exist and their assistants' memories have diverged.
C18_Witness ==
  \E c, d \in 1..Len(chats) :
    /\ c # d
    /\ memory[chats[c].assistant] # memory[chats[d].assistant]

\* C19: every field of a Chat is computed when the Chat is constructed: two
\* Chats constructed at different times have different chat_id values, and
\* different started_at values, each being its own time of construction.
C19_FreshIdAndStartTime ==
  \A c, d \in 1..Len(chats) :
    c # d => /\ chats[c].chat_id # chats[d].chat_id
             /\ chats[c].started_at # chats[d].started_at

\* Every message of every thread other than the placeholder of task i is
\* the same before and after the step, and no message is added.
OnlyOwnPlaceholderChanges(i) ==
  /\ Len(messages') = Len(messages)
  /\ \A t \in ExistingThreads :
       /\ Len(messages'[t]) = Len(messages[t])
       /\ \A k \in 1..Len(messages[t]) :
            (t # chats[tasks[i].chat].thread \/ k # tasks[i].msg)
              => messages'[t][k] = messages[t][k]

\* C20: a model call in progress is never cancelled or abandoned because
\* another trigger event arrives: while task i is in async_process_input no
\* step moves it except the call returning (the turn is saved, the reply is
\* to be written) or raising (nothing is saved, the error text is to be
\* written); the handler then writes to its own placeholder and to no other
\* message, nobody else writes to that placeholder, and every started call
\* does resolve and its handler ends.
C20_CallRunsToItsOutcome ==
  /\ [][\A i \in Tasks :
          tasks[i].pc = "exchange" =>
            LET a == chats[tasks[i].chat].assistant IN
            /\ tasks'[i].pc \in {"exchange", "edit_reply", "edit_error"}
            /\ tasks'[i].chat = tasks[i].chat
            /\ tasks'[i].msg = tasks[i].msg
            /\ tasks'[i].input = tasks[i].input
            /\ tasks'[i].pc = "exchange" => tasks'[i] = tasks[i]
            /\ tasks'[i].pc = "edit_reply" =>
                 memory'[a] = SaveContext(memory[a], tasks[i].input,
                                          Response(tasks[i].input))
            /\ tasks'[i].pc = "edit_error" =>
                 /\ tasks'[i].exc = "exchange"
                 /\ memory'[a] = memory[a]]_vars
  /\ [][\A i \in Tasks :
          tasks[i].pc \in {"exchange", "edit_reply", "edit_error"} =>
            LET t == chats[tasks[i].chat].thread
                k == tasks[i].msg
            IN  /\ tasks'[i] = tasks[i] => messages'[t][k] = messages[t][k]
                /\ tasks'[i] # tasks[i] =>
                     /\ OnlyOwnPlaceholderChanges(i)
                     /\ messages'[t][k].content \in
                          {AwaitingText, ErrorText,
                           IF tasks[i].pc = "edit_reply"
                           THEN Response(tasks[i].input) ELSE ErrorText}]_vars
  /\ \A i \in Tasks :
       tasks[i].pc = "exchange" ~>
         (Terminated(i) /\ (Delivered(i) \/ tasks[i].exc = "edit_error"))

\* A call is still in progress on a thread although a later message on the
\* same thread has been accepted, answered and its handler has ended.
C20_Witness ==
  \E i, j \in Tasks :
    /\ i < j
    /\ tasks[i].pc = "exchange"
    /\ tasks[j].kind = "on_message"
    /\ tasks[j].pc = "done"
    /\ tasks[j].exc = "none"
    /\ HasPlaceholder(j)
    /\ chats[tasks[i].chat].thread = chats[tasks[j].chat].thread
    /\ Placeholder(i).content = AwaitingText
    /\ Placeholder(j).content = Response(tasks[j].input)

\* C21: a memory reconstruction that never completes does not hang the
\* trigger: a handler waiting in load_memory_from_thread always leaves it,
\* because the load returned or raised, or because it was abandoned and the
\* handler went on with a registered session whose memory started empty.
C21_ReconstructionNeverHangs ==
  \A i \in Tasks :
    tasks[i].pc = "create_load" ~>
      \/ tasks[i].did_load
      \/ tasks[i].exc = "create_load"
      \/ /\ tasks[i].chat # 0
         /\ active_threads[tasks[i].thread] # 0
         /\ tasks[i].loaded = <<>>

\* C22: the memory loaded into and kept by a session's assistant never
\* exceeds the budget: what a load leaves is within it, and it still bounds
\* the memory after every further turn the assistant processes.
C22_MemoryWithinBudget ==
  /\ \A i \in Tasks : Len(tasks[i].loaded) <= MemoryBudget
  /\ \A a \in 1..Len(memory) : Len(memory[a]) <= MemoryBudget

\* The step in which task i's load_memory_from_thread returns.
Loads(i) == tasks[i].pc = "create_load" /\ tasks'[i].did_load

\* A history authored alternately by a human and by the bot, human first.
Alternating(history) ==
  \A k \in 1..Len(history) :
    history[k].author = IF k % 2 = 1 THEN "human" ELSE "bot"

\* The turn a platform message stands for.
TurnFor(m) == Turn(IF m.author = "bot" THEN "Agent" ELSE "Human", m.content)

C24_OutstandingCallOnRegisteredChat ==
  \A i \in Tasks :
    tasks[i].pc = "exchange" =>
      active_threads[chats[tasks[i].chat].thread] = tasks[i].chat

\* The message task i handles is one on_message turns away: authored by the
\* bot, not in a thread, in a thread the bot does not own, or starting
\* with "~".
TurnedAway(i) ==
  /\ tasks[i].kind = "on_message"
  /\ \/ tasks[i].user = "bot"
     \/ tasks[i].channel # "own_thread"
     \/ tasks[i].input = TildeText

\* C25: for a message authored by the bot, outside a thread, in a thread
\* the bot does not own, or starting with "~", on_message creates no session
\* and invokes no assistant: its handler ends at once without an exception,
\* holding no Chat, assistant or placeholder, and the step that handles it
\* leaves _active_threads, the Chats and every memory unchanged and posts
\* nothing for the bot.
C25_TurnedAwayMessageDoesNothing ==
  /\ [](\A i \in Tasks :
          TurnedAway(i) =>
            /\ tasks[i].pc = "done"
            /\ tasks[i].exc = "none"
            /\ tasks[i].chat = 0
            /\ tasks[i].assistant = 0
            /\ tasks[i].msg = 0)
  /\ [][\A i \in Tasks :
          (tasks'[i] # tasks[i] /\ tasks'[i].kind = "on_message"
             /\ \/ tasks'[i].user = "bot"
                \/ tasks'[i].channel # "own_thread"
                \/ tasks'[i].input = TildeText)
            => /\ UNCHANGED <<active_threads, chats, memory, accepted>>
               /\ \A t \in ExistingThreads :
                    \A k \in 1..Len(messages'[t]) :
                      k > Len(messages[t]) => messages'[t][k].author = "human"]_vars

\* A "~" message has been ignored in a thread that has a live session.
C25_Witness ==
  \E i \in Tasks :
    /\ TurnedAway(i)
    /\ tasks[i].input = TildeText
    /\ tasks[i].pc = "done"
    /\ active_threads[tasks[i].thread] # 0

\* Thread t had no message when _create_chat was first called for it, so
\* that thread.message_count was 0: it had none at start-up, and its first
\* message, if any, is an accepted text or a message the bot posted after
\* it had its session.
CountZeroThread(t) ==
  /\ AtStartup(t) = 0
  /\ \/ messages[t] = <<>>
     \/ messages[t][1].content.kind
          \in {"text", "embed", "awaiting", "response", "error"}

\* C26: for a thread with message_count = 0, _create_chat checks and inserts
\* without suspending in between: the creating step registers the new Chat
\* at once, no caller is ever inside the resume sequence for the thread, at
\* most one Chat is constructed for it, and every caller holds that Chat,
\* the registry's entry.
C26_CountZeroCreatesOneChat ==
  /\ [](\A t \in ExistingThreads :
          CountZeroThread(t) =>
            /\ Cardinality(ChatsOf(t)) <= 1
            /\ \A c \in ChatsOf(t) : active_threads[t] = c
            /\ \A i \in Tasks :
                 tasks[i].thread = t =>
                   /\ tasks[i].pc \notin CreatePcs
                   /\ ~tasks[i].did_load
                   /\ tasks[i].chat # 0 => tasks[i].chat = active_threads[t])
  /\ [][\A i \in Tasks :
          (Creates(i) /\ messages[tasks'[i].thread] = <<>>) =>
            LET t == tasks'[i].thread
                c == Len(chats) + 1
            IN  /\ active_threads[t] = 0
                /\ ChatsOf(t) = {}
                /\ chats' = Append(chats, Chat(t, tasks'[i].assistant))
                /\ active_threads' = [active_threads EXCEPT ![t] = c]
                /\ tasks'[i].chat = c]_vars

\* A spawned thread whose first message arrived before _spawn_thread called
\* _create_chat: the message's handler constructed the Chat and the
\* spawning handler received the same one.
C26_Witness ==
  \E i, j \in Tasks :
    /\ tasks[i].kind \in {"chat", "reaction"}
    /\ tasks[j].kind = "on_message"
    /\ tasks[i].thread # 0
    /\ tasks[i].thread = tasks[j].thread
    /\ CountZeroThread(tasks[i].thread)
    /\ tasks[j].assistant # 0
    /\ tasks[i].assistant = 0
    /\ tasks[i].chat # 0
    /\ tasks[i].chat = tasks[j].chat

\* C27: for every message from a human in a bot-owned thread, a message with
\* empty text included, on_message ends either having ignored it (text
\* starting with "~") or having dispatched it to the thread's session; it
\* never ends with an exception before one of the two.
C27_IgnoredOrDispatched ==
  \A i \in Tasks :
    (/\ tasks[i].kind = "on_message"
     /\ tasks[i].user = "human"
     /\ tasks[i].channel = "own_thread"
     /\ Terminated(i))
      => \/ tasks[i].input = TildeText /\ tasks[i].exc = "none"
         \/ tasks[i].chat # 0

\* The number of Human turns of a memory buffer that carry the given text.
TurnsWith(buffer, text) ==
  Cardinality({k \in 1..Len(buffer) : buffer[k] = Turn("Human", text)})

\* Task i handles a /chat command issued in the named kind of channel.
ChatIn(i, channel) == tasks[i].kind = "chat" /\ tasks[i].channel = channel

\* C28: a /chat command in a channel that is not allowed has no effect: its
\* handler ends at once with no thread, session, assistant or message, and
\* its step changes nothing else.  In an allowed channel the handler makes
\* at most one thread, of its own, and one placeholder, and once it has run
\* to its end it holds that thread, a session registered for it, and has
\* dispatched one initial turn: the given text, or the default text
\* (announced by the embed) when none was given.
C28_ChatCommandByChannel ==
  /\ [](\A i \in Tasks :
          ChatIn(i, "not_allowed") =>
            /\ tasks[i].pc = "done"
            /\ tasks[i].exc = "none"
            /\ tasks[i].thread = 0
            /\ tasks[i].chat = 0
            /\ tasks[i].assistant = 0
            /\ tasks[i].msg = 0)
  /\ [][\A i \in Tasks :
          (tasks'[i] # tasks[i] /\ tasks'[i].kind = "chat"
             /\ tasks'[i].channel = "not_allowed")
            => UNCHANGED <<active_threads, chats, memory, messages, accepted>>]_vars
  /\ [](\A i \in Tasks :
          ChatIn(i, "allowed") =>
            /\ \A j \in Tasks \ {i} :
                 (tasks[i].thread # 0 /\ tasks[j].kind \in {"chat", "reaction"})
                   => tasks[j].thread # tasks[i].thread
            /\ tasks[i].thread # 0 => AtStartup(tasks[i].thread) = 0
            /\ (tasks[i].pc = "done" /\ tasks[i].exc = "none") =>
                 LET t == tasks[i].thread
                     c == tasks[i].chat
                 IN  /\ t # 0
                     /\ c # 0
                     /\ chats[c].thread = t
                     /\ active_threads[t] # 0
                     /\ tasks[i].input \in {CommandText, DefaultInitialText}
                     /\ tasks[i].input = DefaultInitialText
                          <=> \E k \in 1..Len(messages[t]) :
                                messages[t][k].content = EmbedText
                     /\ Placeholder(i).content = Response(tasks[i].input)
                     /\ TurnsWith(memory[chats[c].assistant], tasks[i].input) = 1)
  /\ [][\A i \in Tasks :
          tasks[i].kind = "chat" =>
            /\ tasks[i].thread # 0 => tasks'[i].thread = tasks[i].thread
            /\ tasks[i].chat # 0 => tasks'[i].chat = tasks[i].chat
            /\ tasks[i].channel = tasks'[i].channel]_vars

\* A /chat command in a channel that is not allowed has been refused, and
\* one in an allowed channel has run to its end with its reply delivered.
C28_Witness ==
  \E i, j \in Tasks :
    /\ ChatIn(i, "not_allowed")
    /\ tasks[i].pc = "done"
    /\ ChatIn(j, "allowed")
    /\ tasks[j].pc = "done"
    /\ tasks[j].exc = "none"
    /\ tasks[j].input = DefaultInitialText

====
